---------------------------- MODULE Spec2Model ----------------------------
(***************************************************************************)
(* A model of the toy DMFT solver of solver_iq.ipynb: the classes Model,   *)
(* ImpuritySolver and SelfConsistency and the driver main().               *)
(*                                                                         *)
(* Numbers.  The notebook works in complex128.  The model works in exact   *)
(* arithmetic over the rationals: a real is a pair <<num, den>> in lowest  *)
(* terms with den > 0, and <<0, 0>> stands for every non-finite double     *)
(* (inf and nan are not told apart).  A complex number is a record         *)
(* [re, im] of two reals, and NonFinite is the one non-finite complex.     *)
(* numpy's scalar division by an exact zero does not raise: it warns and   *)
(* yields inf+nanj, which is NonFinite here.                               *)
(***************************************************************************)
EXTENDS Integers, Sequences, FiniteSets, TLC

(***************************************************************************)
(* Bounds of the model.                                                    *)
(***************************************************************************)
\* n_freq is 200 in main(); the model runs every grid size 1..MaxFreq.
MaxFreq == 2

-----------------------------------------------------------------------------
(***************************************************************************)
(* Exact real arithmetic.                                                  *)
(***************************************************************************)
Abs(x) == IF x < 0 THEN -x ELSE x

RECURSIVE GCD(_, _)
GCD(a, b) == IF b = 0 THEN a ELSE GCD(b, a % b)

RNaN == <<0, 0>>

RFin(a) == a[2] # 0

RNorm(n, d) ==
    IF d = 0 THEN RNaN
    ELSE LET g == GCD(Abs(n), Abs(d))
             s == IF d < 0 THEN -1 ELSE 1
         IN  <<(s * n) \div g, (s * d) \div g>>

R(i) == <<i, 1>>

RNeg(a) == IF RFin(a) THEN <<-a[1], a[2]>> ELSE RNaN

RAdd(a, b) ==
    IF ~(RFin(a) /\ RFin(b)) THEN RNaN
    ELSE LET g == GCD(a[2], b[2])
             L == (a[2] \div g) * b[2]
         IN  RNorm(a[1] * (L \div a[2]) + b[1] * (L \div b[2]), L)

RSub(a, b) == RAdd(a, RNeg(b))

RMul(a, b) ==
    IF ~(RFin(a) /\ RFin(b)) THEN RNaN
    ELSE LET g1 == GCD(Abs(a[1]), b[2])
             g2 == GCD(Abs(b[1]), a[2])
         IN  RNorm((a[1] \div g1) * (b[1] \div g2),
                   (a[2] \div g2) * (b[2] \div g1))

RInv(a) == IF RFin(a) THEN RNorm(a[2], a[1]) ELSE RNaN

RDiv(a, b) == RMul(a, RInv(b))

RPos(a) == RFin(a) /\ a[1] > 0

RLess(a, b) == RPos(RSub(b, a))

(***************************************************************************)
(* Exact complex arithmetic.                                               *)
(***************************************************************************)
NonFinite == [re |-> RNaN, im |-> RNaN]

CMk(x, y) == IF RFin(x) /\ RFin(y) THEN [re |-> x, im |-> y] ELSE NonFinite

CFin(z) == RFin(z.re) /\ RFin(z.im)

CZero == [re |-> R(0), im |-> R(0)]

COne == [re |-> R(1), im |-> R(0)]

CReal(x) == CMk(x, R(0))

CImag(y) == CMk(R(0), y)

CAdd(z, w) == CMk(RAdd(z.re, w.re), RAdd(z.im, w.im))

CSub(z, w) == CMk(RSub(z.re, w.re), RSub(z.im, w.im))

CMul(z, w) ==
    CMk(RSub(RMul(z.re, w.re), RMul(z.im, w.im)),
        RAdd(RMul(z.re, w.im), RMul(z.im, w.re)))

\* 1.0/z for a complex128 scalar z: inf+nanj, with a warning, when z is 0.
CInv(z) ==
    IF ~CFin(z) \/ z = CZero THEN NonFinite
    ELSE LET g  == GCD(z.re[2], z.im[2])
             L  == (z.re[2] \div g) * z.im[2]
             A  == z.re[1] * (L \div z.re[2])
             B  == z.im[1] * (L \div z.im[2])
             h  == GCD(Abs(A), Abs(B))
             A1 == A \div h
             B1 == B \div h
             m  == A1 * A1 + B1 * B1
             k  == RNorm(L, h)
         IN  CMk(RMul(k, RNorm(A1, m)), RMul(k, RNorm(-B1, m)))

\* z / x for a real x.
CDivR(z, x) == CMk(RDiv(z.re, x), RDiv(z.im, x))

-----------------------------------------------------------------------------
(***************************************************************************)
(* np.pi, np.cos and scipy.integrate.dblquad.                              *)
(***************************************************************************)
\* np.pi is a double, hence a rational; the model uses a small rational in
\* its place.  Every formula of the notebook is algebraic in np.pi except
\* the cosines, which the model reads from the table CosNodes.
Pi == <<3, 1>>

\* A wave-vector component is the index k of a quadrature node, the angle
\* -pi + (k-1)*pi/2; CosNodes[k] is its cosine.
CosNodes == <<-1, 0, 1, 0>>

Nodes == 1..Len(CosNodes)

cos(k) == CosNodes[k]

\* The sum of xs[lo..hi], lo <= hi.
RECURSIVE RSum(_, _, _)
RSum(xs, lo, hi) ==
    IF lo = hi THEN xs[lo]
    ELSE LET mid == (lo + hi) \div 2
         IN  RAdd(RSum(xs, lo, mid), RSum(xs, mid + 1, hi))

\* dblquad(func, -pi, pi, lambda kx: -pi, lambda kx: pi)[0]: the integral of
\* the real function func over the Brillouin zone, by the periodic trapezoid
\* rule on the nodes (exact for the dispersion and its square).  func is
\* given by its values func[a, b] on the nodes; scipy calls func(y, x).
dblquad(func) ==
    LET M  == Len(CosNodes)
        h  == RDiv(RMul(R(2), Pi), R(M))
        fs == [i \in 1..(M * M) |->
                  func[((i - 1) % M) + 1, ((i - 1) \div M) + 1]]
    IN  RMul(RMul(h, h), RSum(fs, 1, M * M))

\* (2.0*np.pi)**2.0
TwoPiSquared == RMul(RMul(R(2), Pi), RMul(R(2), Pi))

-----------------------------------------------------------------------------
(***************************************************************************)
(* The parameters main() defines.                                          *)
(***************************************************************************)
t == -1

beta == 10

U == 0

iter_max == 5

(***************************************************************************)
(* class Model.  t, beta and U are integers here, hyb a sequence of        *)
(* complex numbers (index n of the notebook is index n+1 of the sequence). *)
(***************************************************************************)
Model(t_, beta_, U_, hyb_) == [t |-> t_, beta |-> beta_, U |-> U_, hyb |-> hyb_]

\* eps_k with the hopping left out, as in a lattice of hopping 1.
eps_k_UnitHopping(self, kx, ky) == RMul(R(-2), R(cos(kx) + cos(ky)))

\* Model.eps_k
eps_k(self, kx, ky) == RMul(R(-2 * self.t), R(cos(kx) + cos(ky)))

\* iwn = 1.0j * (2.0 * n + 1.0) * np.pi / self.model.beta
iwn(n, beta_) == CImag(RDiv(RMul(R(2 * n + 1), Pi), R(beta_)))

\* np.zeros(shape, dtype=complex)
zeros(N) == [n \in 1..N |-> CZero]

(***************************************************************************)
(* class ImpuritySolver.                                                   *)
(***************************************************************************)
ImpuritySolver(model_) == [model |-> model_]

\* HartreeSelfEnergy without the factor 1/2.
HartreeSelfEnergy_FullU(self) ==
    [n \in 1..Len(self.model.hyb) |-> CReal(R(self.model.U))]

\* self_energy = self.model.U / 2.0 * np.ones(green_impurity.shape)
HartreeSelfEnergy(self) ==
    [n \in 1..Len(self.model.hyb) |-> CReal(RNorm(self.model.U, 2))]

\* solve with the hybridization added instead of subtracted.
solve_PlusHyb(self) ==
    [n \in 1..Len(self.model.hyb) |->
        CInv(CSub(CAdd(iwn(n - 1, self.model.beta), self.model.hyb[n]),
                  CReal(RNorm(self.model.U, 2))))]

\* solve whose loop starts at index 1: entry 0 keeps the zero of np.zeros.
solve_SkipsIndexZero(self) ==
    LET se == HartreeSelfEnergy(self)
    IN  [n \in 1..Len(self.model.hyb) |->
            IF n = 1 THEN CZero
            ELSE CInv(CSub(CSub(iwn(n - 1, self.model.beta), self.model.hyb[n]),
                           se[n]))]

\* ImpuritySolver.solve: every size comes from self.model.hyb.
solve(self) ==
    LET se == HartreeSelfEnergy(self)
    IN  [n \in 1..Len(self.model.hyb) |->
            CInv(CSub(CSub(iwn(n - 1, self.model.beta), self.model.hyb[n]),
                      se[n]))]

(***************************************************************************)
(* class SelfConsistency.                                                  *)
(***************************************************************************)
SelfConsistency(model_, green_impurity_) ==
    [model |-> model_, green_impurity |-> green_impurity_]

\* The integrand 1.0/(iwn - self.model.eps_k(kx, ky) - self_energy[n]).
GreenLattice(self, kx, ky, se, n) ==
    CInv(CSub(CSub(iwn(n - 1, self.model.beta),
                   CReal(eps_k(self.model, kx, ky))),
              se[n]))

\* green_lattice_scalar_real that returns the imaginary part.
green_lattice_scalar_real_ImagPart(self, kx, ky, se, n) ==
    GreenLattice(self, kx, ky, se, n).im

green_lattice_scalar_real(self, kx, ky, se, n) ==
    GreenLattice(self, kx, ky, se, n).re

green_lattice_scalar_imag(self, kx, ky, se, n) ==
    GreenLattice(self, kx, ky, se, n).im

\* ExtractLoopInRange that asks for arrays of one length.
ExtractLoopInRange_SameLength(self) ==
    Len(self.green_impurity) = Len(self.model.hyb)

\* run_selfconsistency 0.): the loop runs over green_impurity and indexes
\* self.model.hyb with the same n.
ExtractLoopInRange(self) == Len(self.green_impurity) <= Len(self.model.hyb)

\* SelfEnergyOf that reuses the known Hartree value U/2.
SelfEnergyOf_Hartree(self) ==
    [n \in 1..Len(self.green_impurity) |-> CReal(RNorm(self.model.U, 2))]

\* SelfEnergyOf that forgets the hybridization.
SelfEnergyOf_NoHyb(self) ==
    [n \in 1..Len(self.green_impurity) |->
        CSub(iwn(n - 1, self.model.beta), CInv(self.green_impurity[n]))]

SelfEnergyOf(self) ==
    [n \in 1..Len(self.green_impurity) |->
        CSub(CSub(iwn(n - 1, self.model.beta), self.model.hyb[n]),
             CInv(self.green_impurity[n]))]

\* GreenImpurityNewAt that normalises each integral and then their sum.
GreenImpurityNewAt_NormTwice(self, se, n) ==
    LET int_real == dblquad([kx \in Nodes, ky \in Nodes |->
                                green_lattice_scalar_real(self, kx, ky, se, n)])
        int_imag == dblquad([kx \in Nodes, ky \in Nodes |->
                                green_lattice_scalar_imag(self, kx, ky, se, n)])
        g0 == CReal(RDiv(int_real, TwoPiSquared))
        g1 == CAdd(g0, CMul(CImag(R(1)),
                            CReal(RDiv(int_imag, TwoPiSquared))))
    IN  CDivR(g1, TwoPiSquared)

\* GreenImpurityNewAt that reads the self-energy of the first frequency.
GreenImpurityNewAt_FirstSigma(self, se, n) ==
    LET se0 == [k \in DOMAIN se |-> se[1]]
        int_real == dblquad([kx \in Nodes, ky \in Nodes |->
                                green_lattice_scalar_real(self, kx, ky, se0, n)])
        int_imag == dblquad([kx \in Nodes, ky \in Nodes |->
                                green_lattice_scalar_imag(self, kx, ky, se0, n)])
        g0 == CReal(int_real)
        g1 == CAdd(g0, CMul(CImag(R(1)), CReal(int_imag)))
    IN  CDivR(g1, TwoPiSquared)

\* run_selfconsistency 1.): two real integrations, recombined, normalised.
GreenImpurityNewAt(self, se, n) ==
    LET int_real == dblquad([kx \in Nodes, ky \in Nodes |->
                                green_lattice_scalar_real(self, kx, ky, se, n)])
        int_imag == dblquad([kx \in Nodes, ky \in Nodes |->
                                green_lattice_scalar_imag(self, kx, ky, se, n)])
        g0 == CReal(int_real)
        g1 == CAdd(g0, CMul(CImag(R(1)), CReal(int_imag)))
    IN  CDivR(g1, TwoPiSquared)

GreenImpurityNewOf(self, se) ==
    [n \in 1..Len(self.green_impurity) |-> GreenImpurityNewAt(self, se, n)]

\* HybNewOf that inverts the Green's function it was given, not the new one.
HybNewOf_OldGreen(self, se, g_new) ==
    [n \in 1..Len(self.green_impurity) |->
        CSub(CSub(iwn(n - 1, self.model.beta), CInv(self.green_impurity[n])),
             se[n])]

\* HybNewOf that adds the hybridization it was given to the new one.
HybNewOf_PlusHyb(self, se, g_new) ==
    [n \in 1..Len(self.green_impurity) |->
        CAdd(CSub(CSub(iwn(n - 1, self.model.beta), CInv(g_new[n])), se[n]),
             self.model.hyb[n])]

\* run_selfconsistency 2.)
HybNewOf(self, se, g_new) ==
    [n \in 1..Len(self.green_impurity) |->
        CSub(CSub(iwn(n - 1, self.model.beta), CInv(g_new[n])), se[n])]

\* FrequenciesOf with one grid point too many.
FrequenciesOf_OneMore(N, beta_) ==
    [n \in 1..(N + 1) |-> RDiv(RMul(R(2 * (n - 1) + 1), Pi), R(beta_))]

\* FrequenciesOf on the even (bosonic) grid 2 n pi / beta.
FrequenciesOf_Bosonic(N, beta_) ==
    [n \in 1..N |-> RDiv(RMul(R(2 * (n - 1)), Pi), R(beta_))]

\* frequencies = np.array([(2.0*n + 1)*np.pi/beta for n in range(n_freq)])
FrequenciesOf(N, beta_) ==
    [n \in 1..N |-> RDiv(RMul(R(2 * (n - 1) + 1), Pi), R(beta_))]

-----------------------------------------------------------------------------
(***************************************************************************)
(* State.  An unbound name holds Unbound (objects) or <<>> (arrays).       *)
(***************************************************************************)
VARIABLES
    pc,                 \* the statement about to run
    n_freq,             \* main: n_freq
    ii,                 \* main: the loop variable (-1 before the loop)
    hyb,                \* main: hyb
    model,              \* main: model
    impurity_solver,    \* main: impurity_solver
    green_impurity,     \* main: green_impurity
    selfconsistency,    \* main: selfconsistency
    self_energy,        \* run_selfconsistency: self_energy
    green_impurity_new, \* run_selfconsistency: green_impurity_new
    hyb_new,            \* run_selfconsistency: hyb_new, its return value
    stdout,             \* the dots printed so far
    frequencies,        \* main: frequencies
    returned,           \* main's return value
    error,              \* the exception raised, "none" if none
    eps_call,           \* the last call of a dispersion function
    int_eps_k,          \* get_hyb_fm: int_eps_k
    int_eps_k_squared,  \* get_hyb_fm: int_eps_k_squared
    hyb_fm              \* get_hyb_fm's return value, as printed

vars == <<pc, n_freq, ii, hyb, model, impurity_solver, green_impurity,
          selfconsistency, self_energy, green_impurity_new, hyb_new,
          stdout, frequencies, returned, error,
          eps_call, int_eps_k, int_eps_k_squared, hyb_fm>>

Unbound == [unbound |-> TRUE]

\* What the cells before main() leave behind.
cells == <<eps_call, int_eps_k, int_eps_k_squared, hyb_fm>>

\* None of those cells is running.
CellsIdle ==
    /\ eps_call = Unbound
    /\ int_eps_k = Unbound
    /\ int_eps_k_squared = Unbound
    /\ hyb_fm = Unbound

sc_locals == <<self_energy, green_impurity_new, hyb_new>>

main_locals == <<n_freq, ii, hyb, model, impurity_solver, stdout,
                 frequencies, returned>>

(***************************************************************************)
(* main()                                                                  *)
(***************************************************************************)
Init ==
    /\ pc = "hyb"
    /\ n_freq \in 1..MaxFreq
    /\ ii = -1
    /\ hyb = <<>>
    /\ model = Unbound
    /\ impurity_solver = Unbound
    /\ green_impurity = <<>>
    /\ selfconsistency = Unbound
    /\ self_energy = <<>>
    /\ green_impurity_new = <<>>
    /\ hyb_new = <<>>
    /\ stdout = 0
    /\ frequencies = <<>>
    /\ returned = Unbound
    /\ error = "none"
    /\ CellsIdle

\* AllocHyb with the initial guess hyb[n] = i*w_n.
AllocHyb_AtPole ==
    /\ pc = "hyb"
    /\ hyb' = [n \in 1..n_freq |-> iwn(n - 1, beta)]
    /\ pc' = "for"
    /\ UNCHANGED <<n_freq, ii, model, impurity_solver, green_impurity,
                   selfconsistency, sc_locals, stdout, frequencies,
                   returned, error>>
    /\ UNCHANGED cells

\* hyb = np.zeros(n_freq, dtype=complex)
AllocHyb ==
    /\ pc = "hyb"
    /\ hyb' = zeros(n_freq)
    /\ pc' = "for"
    /\ UNCHANGED <<n_freq, ii, model, impurity_solver, green_impurity,
                   selfconsistency, sc_locals, stdout, frequencies,
                   returned, error>>
    /\ UNCHANGED cells

\* ForLoop with a convergence test: the loop ends as soon as an iteration
\* returns the hybridization it was given.
ForLoop_UntilConverged ==
    /\ pc = "for"
    /\ IF ii + 1 < iter_max /\ ~(ii >= 0 /\ hyb = model.hyb)
       THEN ii' = ii + 1 /\ pc' = "model"
       ELSE ii' = ii /\ pc' = "frequencies"
    /\ UNCHANGED <<n_freq, hyb, model, impurity_solver, green_impurity,
                   selfconsistency, sc_locals, stdout, frequencies,
                   returned, error>>
    /\ UNCHANGED cells

\* for ii in range(iter_max):
ForLoop ==
    /\ pc = "for"
    /\ IF ii + 1 < iter_max
       THEN ii' = ii + 1 /\ pc' = "model"
       ELSE ii' = ii /\ pc' = "frequencies"
    /\ UNCHANGED <<n_freq, hyb, model, impurity_solver, green_impurity,
                   selfconsistency, sc_locals, stdout, frequencies,
                   returned, error>>
    /\ UNCHANGED cells

\* BuildModel that always starts from the initial guess.
BuildModel_InitialGuess ==
    /\ pc = "model"
    /\ model' = Model(t, beta, U, zeros(n_freq))
    /\ pc' = "impurity_solver"
    /\ UNCHANGED <<n_freq, ii, hyb, impurity_solver, green_impurity,
                   selfconsistency, sc_locals, stdout, frequencies,
                   returned, error>>
    /\ UNCHANGED cells

\* model = Model(t, beta, U, hyb)
BuildModel ==
    /\ pc = "model"
    /\ model' = Model(t, beta, U, hyb)
    /\ pc' = "impurity_solver"
    /\ UNCHANGED <<n_freq, ii, hyb, impurity_solver, green_impurity,
                   selfconsistency, sc_locals, stdout, frequencies,
                   returned, error>>
    /\ UNCHANGED cells

\* impurity_solver = ImpuritySolver(model)
BuildSolver ==
    /\ pc = "impurity_solver"
    /\ impurity_solver' = ImpuritySolver(model)
    /\ pc' = "solve"
    /\ UNCHANGED <<n_freq, ii, hyb, model, green_impurity, selfconsistency,
                   sc_locals, stdout, frequencies, returned, error>>
    /\ UNCHANGED cells

\* Solve that writes its result into the hybridization of its Model
\* (green_impurity = self.model.hyb in place of np.zeros).
Solve_InPlace ==
    /\ pc = "solve"
    /\ green_impurity' = solve(impurity_solver)
    /\ hyb' = green_impurity'
    /\ model' = [model EXCEPT !.hyb = green_impurity']
    /\ impurity_solver' = ImpuritySolver(model')
    /\ pc' = "selfconsistency"
    /\ UNCHANGED <<n_freq, ii, selfconsistency, sc_locals, stdout,
                   frequencies, returned, error>>
    /\ UNCHANGED cells

\* Solve under the division of Python's own complex type: a zero
\* denominator raises ZeroDivisionError.
Solve_ZeroDivisionError ==
    /\ pc = "solve"
    /\ IF \A k \in DOMAIN solve(impurity_solver) : CFin(solve(impurity_solver)[k])
       THEN /\ green_impurity' = solve(impurity_solver)
            /\ pc' = "selfconsistency"
            /\ error' = error
       ELSE /\ green_impurity' = green_impurity
            /\ pc' = "raised"
            /\ error' = "ZeroDivisionError"
    /\ UNCHANGED <<n_freq, ii, hyb, model, impurity_solver, selfconsistency,
                   sc_locals, stdout, frequencies, returned>>
    /\ UNCHANGED cells

\* green_impurity = impurity_solver.solve()
Solve ==
    /\ pc = "solve"
    /\ green_impurity' = solve(impurity_solver)
    /\ pc' = "selfconsistency"
    /\ UNCHANGED <<n_freq, ii, hyb, model, impurity_solver, selfconsistency,
                   sc_locals, stdout, frequencies, returned, error>>
    /\ UNCHANGED cells

\* selfconsistency = SelfConsistency(model, green_impurity)
BuildSelfConsistency ==
    /\ pc = "selfconsistency"
    /\ selfconsistency' = SelfConsistency(model, green_impurity)
    /\ pc' = "extract_self_energy"
    /\ UNCHANGED <<n_freq, ii, hyb, model, impurity_solver, green_impurity,
                   sc_locals, stdout, frequencies, returned, error>>
    /\ UNCHANGED cells

\* run_selfconsistency 0.) extract the self-energy from the green_impurity
ExtractSelfEnergy ==
    /\ pc = "extract_self_energy"
    /\ IF ExtractLoopInRange(selfconsistency)
       THEN /\ self_energy' = SelfEnergyOf(selfconsistency)
            /\ pc' = "green_lattice"
            /\ error' = error
       ELSE /\ self_energy' = <<>>
            /\ pc' = "raised"
            /\ error' = "IndexError"
    /\ green_impurity_new' = <<>>
    /\ hyb_new' = <<>>
    /\ UNCHANGED <<main_locals, green_impurity, selfconsistency>>
    /\ UNCHANGED cells

\* run_selfconsistency 1.) the new green_impurity from the lattice
LatticeGreen ==
    /\ pc = "green_lattice"
    /\ green_impurity_new' = GreenImpurityNewOf(selfconsistency, self_energy)
    /\ pc' = "extract_hyb"
    /\ UNCHANGED <<main_locals, green_impurity, selfconsistency, self_energy,
                   hyb_new, error>>
    /\ UNCHANGED cells

\* run_selfconsistency 2.) extract new hyb; return hyb_new
ExtractHyb ==
    /\ pc = "extract_hyb"
    /\ hyb_new' = HybNewOf(selfconsistency, self_energy, green_impurity_new)
    /\ pc' = "assign_hyb"
    /\ UNCHANGED <<main_locals, green_impurity, selfconsistency, self_energy,
                   green_impurity_new, error>>
    /\ UNCHANGED cells

\* AssignHyb that drops the result of run_selfconsistency.
AssignHyb_KeepsHyb ==
    /\ pc = "assign_hyb"
    /\ hyb' = hyb
    /\ pc' = "print"
    /\ UNCHANGED <<n_freq, ii, model, impurity_solver, green_impurity,
                   selfconsistency, sc_locals, stdout, frequencies,
                   returned, error>>
    /\ UNCHANGED cells

\* hyb = selfconsistency.run_selfconsistency()
AssignHyb ==
    /\ pc = "assign_hyb"
    /\ hyb' = hyb_new
    /\ pc' = "print"
    /\ UNCHANGED <<n_freq, ii, model, impurity_solver, green_impurity,
                   selfconsistency, sc_locals, stdout, frequencies,
                   returned, error>>
    /\ UNCHANGED cells

\* print(".", end="")
PrintDot ==
    /\ pc = "print"
    /\ stdout' = stdout + 1
    /\ pc' = "for"
    /\ UNCHANGED <<n_freq, ii, hyb, model, impurity_solver, green_impurity,
                   selfconsistency, sc_locals, frequencies, returned, error>>
    /\ UNCHANGED cells

\* frequencies = np.array([...])
Frequencies ==
    /\ pc = "frequencies"
    /\ frequencies' = FrequenciesOf(n_freq, beta)
    /\ pc' = "return"
    /\ UNCHANGED <<n_freq, ii, hyb, model, impurity_solver, green_impurity,
                   selfconsistency, sc_locals, stdout, returned, error>>
    /\ UNCHANGED cells

\* return (frequencies, hyb)
Return ==
    /\ pc = "return"
    /\ returned' = <<frequencies, hyb>>
    /\ pc' = "done"
    /\ UNCHANGED <<n_freq, ii, hyb, model, impurity_solver, green_impurity,
                   selfconsistency, sc_locals, stdout, frequencies, error>>
    /\ UNCHANGED cells

Next ==
    \/ AllocHyb
    \/ ForLoop
    \/ BuildModel
    \/ BuildSolver
    \/ Solve
    \/ BuildSelfConsistency
    \/ ExtractSelfEnergy
    \/ LatticeGreen
    \/ ExtractHyb
    \/ AssignHyb
    \/ PrintDot
    \/ Frequencies
    \/ Return

Spec == Init /\ [][Next]_vars

-----------------------------------------------------------------------------
(***************************************************************************)
(* The components on their own: ImpuritySolver.solve and                   *)
(* SelfConsistency.run_selfconsistency called on any Model of the input    *)
(* sets below, run_selfconsistency either on solve's output or on a given  *)
(* green_impurity (of any length).                                         *)
(***************************************************************************)
UnitT == {-1}

UnitBeta == {3, 6}

UnitU == {0, 2}

\* beta = 3 puts the frequencies at w_n = 2n+1, so i and -1+i cancel the
\* denominator of solve at n = 0 for U = 0 and U = 2.
HybValues == {CZero, CMk(R(0), R(1)), CMk(R(-1), R(1))}

\* For solve, also -44/41 i, the hybridization the loop converges to at
\* n = 0 for beta = 3 and U = 0.
SolveHybValues == HybValues \cup {CMk(R(0), RNorm(-44, 41))}

GreenValues == {CZero, CMk(R(1), R(1))}

SeqsUpTo(S, N) == UNION {[1..k -> S] : k \in 1..N}

UnitModels ==
    {Model(t_, beta_, U_, hyb_) :
        t_ \in UnitT, beta_ \in UnitBeta, U_ \in UnitU,
        hyb_ \in SeqsUpTo(HybValues, MaxFreq)}

SolveModels ==
    {Model(t_, beta_, U_, hyb_) :
        t_ \in UnitT, beta_ \in UnitBeta, U_ \in UnitU,
        hyb_ \in SeqsUpTo(SolveHybValues, MaxFreq)}

InitUnit ==
    /\ \/ /\ pc = "solve"
          /\ model \in SolveModels
          /\ impurity_solver = ImpuritySolver(model)
          /\ green_impurity = <<>>
          /\ selfconsistency = Unbound
       \/ /\ pc = "extract_self_energy"
          /\ model \in UnitModels
          /\ impurity_solver = Unbound
          /\ green_impurity \in SeqsUpTo(GreenValues, MaxFreq)
          /\ selfconsistency = SelfConsistency(model, green_impurity)
    /\ n_freq = Len(model.hyb)
    /\ hyb = model.hyb
    /\ ii = 0
    /\ self_energy = <<>>
    /\ green_impurity_new = <<>>
    /\ hyb_new = <<>>
    /\ stdout = 0
    /\ frequencies = <<>>
    /\ returned = Unbound
    /\ error = "none"
    /\ CellsIdle

NextUnit ==
    \/ Solve
    \/ BuildSelfConsistency
    \/ ExtractSelfEnergy
    \/ LatticeGreen
    \/ ExtractHyb

SpecUnit == InitUnit /\ [][NextUnit]_vars

-----------------------------------------------------------------------------
(***************************************************************************)
(* The cells before main(): the function eps_k, called on any node, the    *)
(* method Model.eps_k, called on a Model of any hopping, and get_hyb_fm.   *)
(***************************************************************************)
\* def eps_k(kx, ky), the function of the notebook's second code cell
module_eps_k(kx, ky) == RMul(R(-2), R(cos(kx) + cos(ky)))

\* eps_k_squared = lambda kx, ky: eps_k(kx, ky) * eps_k(kx, ky)
eps_k_squared(kx, ky) == RMul(module_eps_k(kx, ky), module_eps_k(kx, ky))

\* HybFmReturn without the normalisation of the integrals.
HybFmReturn_NoNorm(int_eps_k_, int_eps_k_squared_) ==
    RSub(int_eps_k_squared_, int_eps_k_)

\* return 1.0/(2.0*np.pi)**2.0*(int_eps_k_squared - int_eps_k)
HybFmReturn(int_eps_k_, int_eps_k_squared_) ==
    RMul(RDiv(R(1), TwoPiSquared), RSub(int_eps_k_squared_, int_eps_k_))

\* main() has not been called: none of its names is bound.
MainNotCalled ==
    /\ n_freq = 0
    /\ ii = -1
    /\ hyb = <<>>
    /\ model = Unbound
    /\ impurity_solver = Unbound
    /\ green_impurity = <<>>
    /\ selfconsistency = Unbound
    /\ self_energy = <<>>
    /\ green_impurity_new = <<>>
    /\ hyb_new = <<>>
    /\ stdout = 0
    /\ frequencies = <<>>
    /\ returned = Unbound
    /\ error = "none"

main_names == <<main_locals, green_impurity, selfconsistency, sc_locals,
               error>>

HoppingValues == {-2, -1, 1, 2}

\* Brillouin-zone averages; a dblquad that returns the average m over the
\* zone returns m * (2 pi)^2.
MeanValues == {0, 1, 2, 4, 16}

\* The two integrals dblquad returns for a dispersion of average m1 whose
\* square has the average m2; m2 >= m1 * m1 for every real dispersion.
IntegralPairs ==
    {<<RMul(R(m1), TwoPiSquared), RMul(R(m2), TwoPiSquared)>> :
        <<m1, m2>> \in {mm \in MeanValues \X MeanValues : mm[1] * mm[1] <= mm[2]}}

\* Either a cell that calls the dispersion functions, or the cell that
\* prints get_hyb_fm(), or the return statement of get_hyb_fm on any two
\* integral values.
InitCells ==
    /\ MainNotCalled
    /\ eps_call = Unbound
    /\ hyb_fm = Unbound
    /\ \/ /\ pc \in {"eps_k", "int_eps_k"}
          /\ int_eps_k = Unbound
          /\ int_eps_k_squared = Unbound
       \/ /\ pc = "return_on_values"
          /\ \E ints \in IntegralPairs :
                /\ int_eps_k = ints[1]
                /\ int_eps_k_squared = ints[2]

\* model.eps_k(kx, ky)
CallModelEps ==
    /\ pc = "eps_k"
    /\ \E t_ \in HoppingValues, kx \in Nodes, ky \in Nodes :
          eps_call' = [fn |-> "Model.eps_k", t |-> t_, kx |-> kx, ky |-> ky,
                       ret |-> eps_k(Model(t_, beta, U, <<>>), kx, ky)]
    /\ UNCHANGED <<pc, main_names, int_eps_k, int_eps_k_squared, hyb_fm>>

\* eps_k(kx, ky)
CallEps ==
    /\ pc = "eps_k"
    /\ \E kx \in Nodes, ky \in Nodes :
          eps_call' = [fn |-> "eps_k", kx |-> kx, ky |-> ky,
                       ret |-> module_eps_k(kx, ky)]
    /\ UNCHANGED <<pc, main_names, int_eps_k, int_eps_k_squared, hyb_fm>>

\* int_eps_k = dblquad(eps_k, ...)[0]
IntEpsK ==
    /\ pc = "int_eps_k"
    /\ int_eps_k' = dblquad([a \in Nodes, b \in Nodes |-> module_eps_k(a, b)])
    /\ pc' = "int_eps_k_squared"
    /\ UNCHANGED <<main_names, eps_call, int_eps_k_squared, hyb_fm>>

\* int_eps_k_squared = dblquad(eps_k_squared, ...)[0]
IntEpsKSquared ==
    /\ pc = "int_eps_k_squared"
    /\ int_eps_k_squared' =
          dblquad([a \in Nodes, b \in Nodes |-> eps_k_squared(a, b)])
    /\ pc' = "return"
    /\ UNCHANGED <<main_names, eps_call, int_eps_k, hyb_fm>>

\* return 1.0/(2.0*np.pi)**2.0*(int_eps_k_squared - int_eps_k), printed by
\* the calling cell
ReturnHybFm ==
    /\ pc \in {"return", "return_on_values"}
    /\ hyb_fm' = HybFmReturn(int_eps_k, int_eps_k_squared)
    /\ pc' = IF pc = "return" THEN "printed" ELSE "returned_on_values"
    /\ UNCHANGED <<main_names, eps_call, int_eps_k, int_eps_k_squared>>

NextCells ==
    \/ CallModelEps
    \/ CallEps
    \/ IntEpsK
    \/ IntEpsKSquared
    \/ ReturnHybFm

SpecCells == InitCells /\ [][NextCells]_vars

-----------------------------------------------------------------------------
(***************************************************************************)
(* main() entered below its line hyb = np.zeros(...), on any initial guess *)
(* of length n_freq.                                                       *)
(***************************************************************************)
\* The zero of main(), the value i w_0 that cancels the denominator of
\* solve at n = 0, and a value with a real part.
GuessValues == {CZero, iwn(0, beta), CMk(R(-1), R(1))}

InitGuess ==
    /\ pc = "for"
    /\ n_freq \in 1..MaxFreq
    /\ ii = -1
    /\ hyb \in [1..n_freq -> GuessValues]
    /\ model = Unbound
    /\ impurity_solver = Unbound
    /\ green_impurity = <<>>
    /\ selfconsistency = Unbound
    /\ self_energy = <<>>
    /\ green_impurity_new = <<>>
    /\ hyb_new = <<>>
    /\ stdout = 0
    /\ frequencies = <<>>
    /\ returned = Unbound
    /\ error = "none"
    /\ CellsIdle

NextGuess ==
    \/ ForLoop
    \/ BuildModel
    \/ BuildSolver
    \/ Solve
    \/ BuildSelfConsistency
    \/ ExtractSelfEnergy
    \/ LatticeGreen
    \/ ExtractHyb
    \/ AssignHyb
    \/ PrintDot
    \/ Frequencies
    \/ Return

SpecGuess == InitGuess /\ [][NextGuess]_vars

-----------------------------------------------------------------------------
(***************************************************************************)
(* run_selfconsistency with the bodies of its three loops run index by     *)
(* index in any order: pc[k] is the loop whose body entry k = n+1 runs     *)
(* next.  The call is made on the output of solve.                         *)
(***************************************************************************)
ParHybValues == {CZero, CMk(R(-1), R(1))}

ParModels ==
    {Model(t_, beta_, U_, hyb_) :
        t_ \in UnitT, beta_ \in UnitBeta, U_ \in UnitU,
        hyb_ \in SeqsUpTo(ParHybValues, MaxFreq)}

InitPar ==
    /\ model \in ParModels
    /\ n_freq = Len(model.hyb)
    /\ hyb = model.hyb
    /\ ii = 0
    /\ impurity_solver = ImpuritySolver(model)
    /\ green_impurity = solve(impurity_solver)
    /\ selfconsistency = SelfConsistency(model, green_impurity)
    /\ pc = [k \in 1..Len(green_impurity) |-> "extract_self_energy"]
    /\ self_energy = zeros(Len(green_impurity))
    /\ green_impurity_new = zeros(Len(green_impurity))
    /\ hyb_new = zeros(Len(green_impurity))
    /\ stdout = 0
    /\ frequencies = <<>>
    /\ returned = Unbound
    /\ error = "none"
    /\ CellsIdle

\* self_energy[n] = iwn - self.model.hyb[n] - 1.0/self.green_impurity[n]
ExtractAt(k) ==
    /\ pc[k] = "extract_self_energy"
    /\ self_energy' =
          [self_energy EXCEPT ![k] = SelfEnergyOf(selfconsistency)[k]]
    /\ pc' = [pc EXCEPT ![k] = "green_lattice"]
    /\ UNCHANGED <<main_locals, green_impurity, selfconsistency,
                   green_impurity_new, hyb_new, error, cells>>

\* green_impurity_new[n] = dblquad(...)[0]; += 1.0j*dblquad(...)[0];
\* /= (2.0*np.pi)**2.0
LatticeAt(k) ==
    /\ pc[k] = "green_lattice"
    /\ green_impurity_new' =
          [green_impurity_new EXCEPT
              ![k] = GreenImpurityNewAt(selfconsistency, self_energy, k)]
    /\ pc' = [pc EXCEPT ![k] = "extract_hyb"]
    /\ UNCHANGED <<main_locals, green_impurity, selfconsistency,
                   self_energy, hyb_new, error, cells>>

\* hyb_new[n] = iwn - 1.0/green_impurity_new[n] - self_energy[n]
UpdateAt(k) ==
    /\ pc[k] = "extract_hyb"
    /\ hyb_new' =
          [hyb_new EXCEPT
              ![k] = HybNewOf(selfconsistency, self_energy,
                              green_impurity_new)[k]]
    /\ pc' = [pc EXCEPT ![k] = "return"]
    /\ UNCHANGED <<main_locals, green_impurity, selfconsistency,
                   self_energy, green_impurity_new, error, cells>>

NextPar ==
    \/ \E k \in DOMAIN pc : ExtractAt(k)
    \/ \E k \in DOMAIN pc : LatticeAt(k)
    \/ \E k \in DOMAIN pc : UpdateAt(k)

SpecPar == InitPar /\ [][NextPar]_vars

-----------------------------------------------------------------------------
(***************************************************************************)
(* The draft of the notebook (solver_iq-2-checkpoint): its main() down to  *)
(* the call of solve, on any initial guess and on the interactions of      *)
(* DraftUValues.  Its Model and ImpuritySolver constructors are those of   *)
(* the notebook.                                                           *)
(***************************************************************************)
draft_U == 4

draft_iter_max == 2

DraftUValues == {0, 2, draft_U}

\* linalg.inv with the reciprocal of a number in place of the error.
linalg_inv_Reciprocal(a) == [value |-> CInv(a)]

\* scipy.linalg.inv(a) on a number: a is not a square matrix, and inv
\* raises "ValueError: expected square matrix".  The draft never passes
\* anything but a number.
linalg_inv(a) == [raised |-> "ValueError"]

\* The draft's ImpuritySolver.solve: the array it returns, or the exception
\* of the first index n at which linalg.inv raises.
draft_solve(self) ==
    LET se  == HartreeSelfEnergy(self)
        inv == [n \in 1..Len(self.model.hyb) |->
                  linalg_inv(CSub(CSub(iwn(n - 1, self.model.beta),
                                       self.model.hyb[n]), se[n]))]
        bad == {n \in DOMAIN inv : "raised" \in DOMAIN inv[n]}
    IN  IF bad = {}
        THEN [value |-> [n \in DOMAIN inv |-> inv[n].value]]
        ELSE LET first == CHOOSE n \in bad : \A m \in bad : n <= m
             IN  [raised |-> inv[first].raised, n |-> first - 1]

InitDraft == InitGuess

\* for ii in range(iter_max):
DraftForLoop ==
    /\ pc = "for"
    /\ IF ii + 1 < draft_iter_max
       THEN ii' = ii + 1 /\ pc' = "model"
       ELSE ii' = ii /\ pc' = "print_hyb"
    /\ UNCHANGED <<n_freq, hyb, model, impurity_solver, green_impurity,
                   selfconsistency, sc_locals, stdout, frequencies,
                   returned, error>>
    /\ UNCHANGED cells

\* model = Model(t, beta, U, hyb)
DraftBuildModel ==
    /\ pc = "model"
    /\ \E U_ \in DraftUValues : model' = Model(t, beta, U_, hyb)
    /\ pc' = "impurity_solver"
    /\ UNCHANGED <<n_freq, ii, hyb, impurity_solver, green_impurity,
                   selfconsistency, sc_locals, stdout, frequencies,
                   returned, error>>
    /\ UNCHANGED cells

\* green_impurity = impurity_solver.solve()
DraftSolve ==
    /\ pc = "solve"
    /\ LET r == draft_solve(impurity_solver)
       IN  IF "raised" \in DOMAIN r
           THEN /\ green_impurity' = green_impurity
                /\ pc' = "raised"
                /\ error' = r.raised
           ELSE /\ green_impurity' = r.value
                /\ pc' = "selfconsistency"
                /\ error' = error
    /\ UNCHANGED <<n_freq, ii, hyb, model, impurity_solver, selfconsistency,
                   sc_locals, stdout, frequencies, returned>>
    /\ UNCHANGED cells

NextDraft ==
    \/ DraftForLoop
    \/ DraftBuildModel
    \/ BuildSolver
    \/ DraftSolve

SpecDraft == InitDraft /\ [][NextDraft]_vars

-----------------------------------------------------------------------------
(***************************************************************************)
(* Properties of main().                                                   *)
(***************************************************************************)
\* The iterations of the loop that have run to their end.
Completed ==
    CASE pc = "hyb" -> 0
      [] pc \in {"for", "frequencies", "return", "done"} -> ii + 1
      [] OTHER -> ii

InLoopBody ==
    pc \in {"model", "impurity_solver", "solve", "selfconsistency",
            "extract_self_energy", "green_lattice", "extract_hyb",
            "assign_hyb", "print"}

LoopBody ==
    <<"model", "impurity_solver", "solve", "selfconsistency",
      "extract_self_energy", "green_lattice", "extract_hyb", "assign_hyb",
      "print">>

PositionInBody == CHOOSE k \in 1..Len(LoopBody) : LoopBody[k] = pc

\* The statements main() has run so far.
StepsTaken ==
    CASE pc = "hyb" -> 0
      [] pc = "for" -> 1 + (Len(LoopBody) + 1) * (ii + 1)
      [] InLoopBody -> 1 + (Len(LoopBody) + 1) * ii + PositionInBody
      [] pc = "frequencies" -> 2 + (Len(LoopBody) + 1) * iter_max
      [] pc = "return" -> 3 + (Len(LoopBody) + 1) * iter_max
      [] pc = "done" -> 4 + (Len(LoopBody) + 1) * iter_max

C1_Counts ==
    /\ pc \in {"hyb", "for", "frequencies", "return", "done"} \/ InLoopBody
    /\ stdout = Completed
    /\ Completed <= iter_max
    /\ InLoopBody => ii \in 0..(iter_max - 1)
    /\ pc \in {"frequencies", "return", "done"} => Completed = iter_max
    /\ pc = "done" => /\ stdout = iter_max
                      /\ returned = <<frequencies, hyb>>
    /\ pc # "done" => returned = Unbound
    /\ error = "none"

\* C1: main() runs exactly iter_max (5) iterations, whatever the values it
\* computes: one dot is printed per completed iteration, the loop is left
\* only after iter_max iterations, every step is the next statement of the
\* run (so that the run ends, after a fixed number of statements), and
\* main() ends by returning (frequencies, hyb).
C1_ExactlyIterMaxIterations ==
    [](C1_Counts) /\ [][StepsTaken' = StepsTaken + 1]_vars

C1_Witness ==
    /\ pc = "done"
    /\ ii = iter_max - 1
    /\ stdout = 5
    /\ returned = <<frequencies, hyb>>
    /\ hyb = model.hyb

\* The pipeline of one iteration as a function of the hybridization alone.
PipelineModel(h) == Model(t, beta, U, h)

PipelineGreen(h) == solve(ImpuritySolver(PipelineModel(h)))

PipelineStep(h) ==
    LET sc == SelfConsistency(PipelineModel(h), PipelineGreen(h))
        se == SelfEnergyOf(sc)
    IN  HybNewOf(sc, se, GreenImpurityNewOf(sc, se))

C2_Step ==
    /\ pc = "for" /\ pc' = "model" =>
          /\ ii' = ii + 1
          /\ hyb = IF ii = -1 THEN zeros(n_freq) ELSE hyb_new
    /\ pc = "model" =>
          /\ pc' = "impurity_solver"
          /\ model'.hyb = IF ii = 0 THEN zeros(n_freq) ELSE hyb_new
          /\ model' = PipelineModel(hyb)
    /\ pc = "impurity_solver" =>
          /\ pc' = "solve"
          /\ impurity_solver'.model = model
    /\ pc = "solve" =>
          /\ pc' = "selfconsistency"
          /\ green_impurity' = PipelineGreen(hyb)
    /\ pc = "selfconsistency" =>
          /\ pc' = "extract_self_energy"
          /\ selfconsistency'.model = model
          /\ selfconsistency'.green_impurity = green_impurity
    /\ pc = "extract_self_energy" => pc' = "green_lattice"
    /\ pc = "green_lattice" => pc' = "extract_hyb"
    /\ pc = "extract_hyb" =>
          /\ pc' = "assign_hyb"
          /\ hyb_new' = PipelineStep(hyb)
    /\ pc = "assign_hyb" =>
          /\ pc' = "print"
          /\ hyb' = hyb_new
    /\ pc = "print" => pc' = "for"
    /\ pc \notin {"hyb", "assign_hyb"} => hyb' = hyb

\* C2: every iteration of main() builds the Model, runs ImpuritySolver.solve,
\* runs SelfConsistency.run_selfconsistency and replaces hyb, in this order;
\* the Model of iteration i holds the hybridization run_selfconsistency
\* returned in iteration i-1 (zeros(n_freq) for i = 0); and what an
\* iteration returns is a function of the hyb it starts with alone.
C2_IterationOrder == [][C2_Step]_vars

C2_Witness ==
    /\ pc = "impurity_solver"
    /\ ii = 1
    /\ model.hyb = hyb_new
    /\ model.hyb # zeros(n_freq)

Allocated(X) == X # <<>>

\* The frequency-indexed arrays main() and the calls it makes hold.
Arrays ==
    <<hyb, green_impurity, self_energy, green_impurity_new, hyb_new,
      frequencies>>

\* C3: every frequency-indexed array of a run of main() that is allocated
\* has length n_freq: hyb, the Model's hyb, both self-energy arrays,
\* green_impurity, green_impurity_new, hyb_new and frequencies.
C3_LengthInvariant ==
    /\ \A k \in 1..Len(Arrays) :
          Allocated(Arrays[k]) => Len(Arrays[k]) = n_freq
    /\ model # Unbound => Len(model.hyb) = n_freq
    /\ impurity_solver # Unbound =>
          /\ Len(HartreeSelfEnergy(impurity_solver)) = n_freq
          /\ Len(solve(impurity_solver)) = n_freq
    /\ selfconsistency # Unbound =>
          /\ Len(selfconsistency.model.hyb) = n_freq
          /\ Len(selfconsistency.green_impurity) = n_freq
    /\ returned # Unbound =>
          /\ Len(returned[1]) = n_freq
          /\ Len(returned[2]) = n_freq

C3_Witness ==
    /\ pc = "done"
    /\ n_freq = 2
    /\ \A k \in 1..Len(Arrays) :
          Allocated(Arrays[k]) /\ Len(Arrays[k]) = 2
    /\ Len(returned[1]) = 2
    /\ Len(returned[2]) = 2

-----------------------------------------------------------------------------
(***************************************************************************)
(* Properties of the components, over SpecUnit.                            *)
(***************************************************************************)
\* w_n = (2n+1) pi / beta, n counted from 0.
Omega(n, beta_) == RNorm((2 * n + 1) * Pi[1], Pi[2] * beta_)

\* i*w_n - hyb[n] - U/2 for entry k = n+1 of Model m.
SolveDenominator(m, k) ==
    CMk(RSub(RNeg(m.hyb[k].re), RNorm(m.U, 2)),
        RSub(Omega(k - 1, m.beta), m.hyb[k].im))

\* z * w = 1, for finite z and w.
Inverse(z, w) == CFin(z) /\ CFin(w) /\ CMul(z, w) = COne

AfterSolve == pc = "selfconsistency"

\* C4: solve returns G_imp[n] = 1/(i*w_n - hyb[n] - U/2) for every index n
\* of the hybridization of its Model: G_imp[n] times the denominator is 1
\* (and G_imp[n] is the non-finite 1/0 where the denominator is 0).
C4_SolveFormula ==
    AfterSolve =>
        /\ DOMAIN green_impurity = DOMAIN impurity_solver.model.hyb
        /\ \A k \in DOMAIN green_impurity :
              LET d == SolveDenominator(impurity_solver.model, k)
              IN  IF d = CZero
                  THEN green_impurity[k] = NonFinite
                  ELSE Inverse(green_impurity[k], d)

C4_Witness ==
    /\ AfterSolve
    /\ impurity_solver.model.U = 2
    /\ Len(green_impurity) = 2
    /\ impurity_solver.model.hyb[2] # CZero
    /\ CFin(green_impurity[2])
    /\ green_impurity[2].re # R(0)
    /\ green_impurity[2].im # R(0)

\* C5, as claimed: for every Model the denominator of solve is nonzero at
\* every index, so every entry solve returns is a well-defined quotient.
C5_DenominatorNeverZero ==
    AfterSolve =>
        \A k \in DOMAIN green_impurity :
            /\ SolveDenominator(impurity_solver.model, k) # CZero
            /\ CFin(green_impurity[k])

\* C5, amended: the denominator of solve vanishes exactly at
\* hyb[n] = i*w_n - U/2, so the division is well-defined whenever
\* Im hyb[n] # w_n or Re hyb[n] # -U/2; solve raises in neither case (on a
\* zero denominator it stores a non-finite value).
C5_ZeroOnlyAtPole ==
    AfterSolve =>
        /\ error = "none"
        /\ \A k \in DOMAIN green_impurity :
              LET m  == impurity_solver.model
                  at == /\ m.hyb[k].im = Omega(k - 1, m.beta)
                        /\ m.hyb[k].re = RNorm(-m.U, 2)
              IN  CFin(green_impurity[k]) <=> ~at

C5_Witness ==
    /\ AfterSolve
    /\ Len(green_impurity) = 2
    /\ green_impurity[1] = NonFinite
    /\ CFin(green_impurity[2])
    /\ impurity_solver.model.hyb[2].im # R(0)

AfterExtraction == pc = "green_lattice"

\* C6: the self-energy run_selfconsistency works with is
\* Sigma[n] = i*w_n - model.hyb[n] - 1/green_impurity[n], from the Green's
\* function given to the constructor: (i*w_n - hyb[n] - Sigma[n]) times
\* green_impurity[n] is 1 (Sigma[n] is non-finite where green_impurity[n]
\* is 0 or non-finite).
C6_SelfEnergyExtraction ==
    AfterExtraction =>
        /\ DOMAIN self_energy = DOMAIN selfconsistency.green_impurity
        /\ \A k \in DOMAIN self_energy :
              LET m == selfconsistency.model
                  g == selfconsistency.green_impurity[k]
                  d == CMk(RSub(RNeg(m.hyb[k].re), self_energy[k].re),
                           RSub(RSub(Omega(k - 1, m.beta), m.hyb[k].im),
                                self_energy[k].im))
              IN  IF CFin(g) /\ g # CZero
                  THEN CFin(self_energy[k]) /\ Inverse(d, g)
                  ELSE self_energy[k] = NonFinite

C6_Witness ==
    /\ AfterExtraction
    /\ impurity_solver = Unbound
    /\ selfconsistency.model.U = 2
    /\ CFin(self_energy[1])
    /\ self_energy[1] # CReal(R(1))

AfterLattice == pc = "extract_hyb"

AfterUpdate == pc = "assign_hyb"

\* C7: run_selfconsistency returns hyb_new[n] = i*w_n - 1/G_new[n] - Sigma[n]
\* with the G_new and the Sigma of the same call: (i*w_n - hyb_new[n] -
\* Sigma[n]) times G_new[n] is 1 (hyb_new[n] is non-finite where G_new[n]
\* is 0 or G_new[n] or Sigma[n] is non-finite).
C7_HybridizationUpdate ==
    AfterUpdate =>
        /\ DOMAIN hyb_new = DOMAIN selfconsistency.green_impurity
        /\ \A k \in DOMAIN hyb_new :
              LET m  == selfconsistency.model
                  gn == green_impurity_new[k]
                  se == self_energy[k]
                  d  == CMk(RSub(RNeg(hyb_new[k].re), se.re),
                            RSub(RSub(Omega(k - 1, m.beta), hyb_new[k].im),
                                 se.im))
              IN  IF CFin(gn) /\ gn # CZero /\ CFin(se)
                  THEN CFin(hyb_new[k]) /\ Inverse(d, gn)
                  ELSE hyb_new[k] = NonFinite

C7_Witness ==
    /\ AfterUpdate
    /\ selfconsistency.model.U = 2
    /\ Len(hyb_new) = 2
    /\ CFin(hyb_new[2])
    /\ hyb_new[2] # selfconsistency.model.hyb[2]
    /\ green_impurity_new[2] # selfconsistency.green_impurity[2]

\* The integrand 1/(i*w_n - eps(kx,ky) - Sigma[n]) at entry k = n+1.
LatticeIntegrand(m, se, k, kx, ky) ==
    CInv(CMk(RSub(RNeg(eps_k(m, kx, ky)), se[k].re),
             RSub(Omega(k - 1, m.beta), se[k].im)))

\* C8: G_new[n] = (R_n + i*I_n)/(2 pi)^2 with R_n and I_n the integrals
\* over the Brillouin zone of the real and of the imaginary part of
\* 1/(i*w_n - eps(kx,ky) - Sigma[n]); (2 pi)^2 divides the recombined
\* value once.
C8_LatticeGreen ==
    AfterLattice =>
        /\ DOMAIN green_impurity_new = DOMAIN selfconsistency.green_impurity
        /\ \A k \in DOMAIN green_impurity_new :
              LET m   == selfconsistency.model
                  R_n == dblquad([kx \in Nodes, ky \in Nodes |->
                             LatticeIntegrand(m, self_energy, k, kx, ky).re])
                  I_n == dblquad([kx \in Nodes, ky \in Nodes |->
                             LatticeIntegrand(m, self_energy, k, kx, ky).im])
              IN  CMul(green_impurity_new[k], CReal(TwoPiSquared))
                      = CMk(R_n, I_n)

C8_Witness ==
    /\ AfterLattice
    /\ Len(green_impurity_new) = 2
    /\ CFin(green_impurity_new[2])
    /\ green_impurity_new[2].re # R(0)
    /\ green_impurity_new[2].im # R(0)

\* C9: for U = 0 the self-energy solve uses is 0 at every index and solve
\* returns the free Green's function 1/(i*w_n - hyb[n]), whatever the
\* hybridization.
C9_FreeGreenAtZeroU ==
    (AfterSolve /\ impurity_solver.model.U = 0) =>
        \A k \in DOMAIN green_impurity :
            LET m    == impurity_solver.model
                free == CMk(RNeg(m.hyb[k].re),
                            RSub(Omega(k - 1, m.beta), m.hyb[k].im))
            IN  /\ HartreeSelfEnergy(impurity_solver)[k] = CZero
                /\ IF free = CZero
                   THEN green_impurity[k] = NonFinite
                   ELSE Inverse(free, green_impurity[k])

C9_Witness ==
    /\ AfterSolve
    /\ impurity_solver.model.U = 0
    /\ impurity_solver.model.hyb[1] = CMk(R(-1), R(1))
    /\ CFin(green_impurity[1])

\* run_selfconsistency was given the output of solve on the same Model.
RoundTrip ==
    /\ AfterExtraction
    /\ impurity_solver # Unbound
    /\ selfconsistency.model = impurity_solver.model
    /\ selfconsistency.green_impurity = green_impurity

\* C10, as claimed: on the output of solve, the self-energy
\* run_selfconsistency extracts is U/2 at every index, whatever the
\* hybridization.
C10_RoundTripAlways ==
    RoundTrip =>
        \A k \in DOMAIN self_energy :
            self_energy[k] = CReal(RNorm(selfconsistency.model.U, 2))

\* C10, amended: on the output of solve, the self-energy extracted at index
\* n is U/2 for every hybridization with hyb[n] # i*w_n - U/2, whatever n;
\* at hyb[n] = i*w_n - U/2 solve's division is by 0 and the self-energy
\* extracted is non-finite.
C10_RoundTrip ==
    RoundTrip =>
        /\ DOMAIN self_energy = DOMAIN selfconsistency.model.hyb
        /\ \A k \in DOMAIN self_energy :
              IF SolveDenominator(selfconsistency.model, k) # CZero
              THEN self_energy[k] = CReal(RNorm(selfconsistency.model.U, 2))
              ELSE self_energy[k] = NonFinite

C10_Witness ==
    /\ RoundTrip
    /\ selfconsistency.model.U = 2
    /\ Len(self_energy) = 2
    /\ selfconsistency.model.hyb[1] # CZero
    /\ selfconsistency.model.hyb[2] # selfconsistency.model.hyb[1]
    /\ self_energy[1] = CReal(R(1))
    /\ self_energy[2] = CReal(R(1))

\* The converged pair of Model m at entry k = n+1: the Hartree self-energy
\* U/2 and the lattice Green's function it gives,
\* (1/(2 pi)^2) * integral of 1/(i*w_n - eps(kx,ky) - U/2) over the zone.
ConvergedSelfEnergy(m) == [k \in DOMAIN m.hyb |-> CReal(RNorm(m.U, 2))]

ConvergedGreen(m, k) ==
    CDivR(CMk(dblquad([kx \in Nodes, ky \in Nodes |->
                 LatticeIntegrand(m, ConvergedSelfEnergy(m), k, kx, ky).re]),
              dblquad([kx \in Nodes, ky \in Nodes |->
                 LatticeIntegrand(m, ConvergedSelfEnergy(m), k, kx, ky).im])),
          TwoPiSquared)

\* hyb*[n] = i*w_n - 1/G_new[n] - Sigma[n] for the converged pair: entry k
\* of the hybridization of m is converged.
Converged(m, k) == Inverse(SolveDenominator(m, k), ConvergedGreen(m, k))

\* solve and then run_selfconsistency have run on one Model.
AfterSolveAndUpdate ==
    /\ AfterUpdate
    /\ impurity_solver # Unbound
    /\ selfconsistency.model = impurity_solver.model
    /\ selfconsistency.green_impurity = green_impurity

\* C17: where the hybridization given to solve + run_selfconsistency is
\* converged, the hybridization they return is the one given.
C17_FixedPoint ==
    AfterSolveAndUpdate =>
        \A k \in DOMAIN hyb_new :
            Converged(selfconsistency.model, k)
                => hyb_new[k] = selfconsistency.model.hyb[k]

C17_Witness ==
    /\ AfterSolveAndUpdate
    /\ Len(hyb_new) = 1
    /\ Converged(selfconsistency.model, 1)
    /\ selfconsistency.model.hyb[1] = CMk(R(0), RNorm(-44, 41))
    /\ hyb_new = selfconsistency.model.hyb

-----------------------------------------------------------------------------
(***************************************************************************)
(* More properties of main().                                              *)
(***************************************************************************)
\* The complex arrays main() and the calls it makes hold.
ComplexArrays ==
    <<hyb, green_impurity, self_energy, green_impurity_new, hyb_new>>

\* C15: with n_freq = 1 no step of the run fails; every frequency-indexed
\* array has the single index 0 (so every per-frequency loop runs once, on
\* an index in range) and a finite entry; main() ends after its iter_max
\* iterations and returns one frequency, pi/beta, and one hybridization
\* value.
C15_SingleFrequency ==
    n_freq = 1 =>
        /\ error = "none"
        /\ pc # "raised"
        /\ \A k \in 1..Len(Arrays) :
              Allocated(Arrays[k]) => DOMAIN Arrays[k] = {1}
        /\ \A k \in 1..Len(ComplexArrays) :
              Allocated(ComplexArrays[k]) => CFin(ComplexArrays[k][1])
        /\ pc = "done" =>
              /\ stdout = iter_max
              /\ returned[1] = <<Omega(0, beta)>>
              /\ DOMAIN returned[2] = {1}
              /\ CFin(returned[2][1])

C15_Witness ==
    /\ n_freq = 1
    /\ pc = "done"
    /\ Len(returned[1]) = 1
    /\ Len(returned[2]) = 1
    /\ returned[2][1] # CZero

\* C16: main() returns the pair of the grid frequencies[n] = (2n+1) pi/beta,
\* n = 0..n_freq-1, positive and strictly increasing, and of the
\* hybridization the last iteration (ii = iter_max - 1) has produced: the
\* hyb_new of its run_selfconsistency, which is the pipeline applied to the
\* hybridization of its Model.
C16_ReturnValue ==
    pc = "done" =>
        /\ returned[1] = [n \in 1..n_freq |-> Omega(n - 1, beta)]
        /\ \A n \in 1..n_freq :
              /\ RPos(returned[1][n])
              /\ n < n_freq => RLess(returned[1][n], returned[1][n + 1])
        /\ ii = iter_max - 1
        /\ selfconsistency.model = model
        /\ returned[2] = hyb_new
        /\ returned[2] = PipelineStep(model.hyb)

C16_Witness ==
    /\ pc = "done"
    /\ n_freq = 2
    /\ RLess(returned[1][1], returned[1][2])
    /\ returned[2] = hyb_new
    /\ returned[2] # zeros(n_freq)

\* The integral over the zone, divided by (2 pi)^2, of 1/(iw - eps - sigma)
\* for Model m.
ZoneGreen(m, iw, sigma) ==
    CDivR(CMk(dblquad([kx \in Nodes, ky \in Nodes |->
                 CInv(CSub(CSub(iw, CReal(eps_k(m, kx, ky))), sigma)).re]),
              dblquad([kx \in Nodes, ky \in Nodes |->
                 CInv(CSub(CSub(iw, CReal(eps_k(m, kx, ky))), sigma)).im])),
          TwoPiSquared)

\* C27: with w = frequencies[n] as main() returns it, the results of the last
\* iteration are those of i*w: green_impurity[n] = 1/(i*w - hyb[n] - U/2),
\* Sigma[n] = i*w - hyb[n] - 1/green_impurity[n], G_new[n] the zone average
\* of 1/(i*w - eps - Sigma[n]), and the hyb[n] returned is
\* i*w - 1/G_new[n] - Sigma[n]; w is (2n+1) pi / beta.
C27_SingleFrequencyConvention ==
    pc = "done" =>
        \A k \in 1..n_freq :
            LET w  == returned[1][k]
                iw == CImag(w)
                m  == selfconsistency.model
            IN  /\ w = Omega(k - 1, beta)
                /\ Inverse(CSub(CSub(iw, m.hyb[k]), CReal(RNorm(m.U, 2))),
                           green_impurity[k])
                /\ self_energy[k] =
                      CSub(CSub(iw, m.hyb[k]), CInv(green_impurity[k]))
                /\ green_impurity_new[k] = ZoneGreen(m, iw, self_energy[k])
                /\ hyb_new[k] =
                      CSub(CSub(iw, CInv(green_impurity_new[k])), self_energy[k])
                /\ returned[2][k] = hyb_new[k]

C27_Witness ==
    /\ pc = "done"
    /\ n_freq = 2
    /\ returned[1] = <<Omega(0, beta), Omega(1, beta)>>
    /\ returned[2][2] =
          CSub(CSub(CImag(returned[1][2]), CInv(green_impurity_new[2])),
               self_energy[2])

\* C28: with U = 0, every G_new[n] that run_selfconsistency computes has
\* real part 0 and a negative imaginary part, and every hyb[n], before and
\* after every iteration, has real part 0.
C28_PurelyImaginary ==
    U = 0 =>
        /\ \A k \in DOMAIN green_impurity_new :
              /\ green_impurity_new[k].re = R(0)
              /\ RLess(green_impurity_new[k].im, R(0))
        /\ \A k \in DOMAIN hyb_new : CFin(hyb_new[k]) /\ hyb_new[k].re = R(0)
        /\ \A k \in DOMAIN hyb : CFin(hyb[k]) /\ hyb[k].re = R(0)

C28_Witness ==
    /\ pc = "print"
    /\ U = 0
    /\ n_freq = 2
    /\ ii = 1
    /\ \A k \in 1..n_freq :
          /\ green_impurity_new[k].re = R(0)
          /\ RLess(green_impurity_new[k].im, R(0))
          /\ hyb[k].re = R(0)
          /\ hyb[k].im # R(0)

\* The objects of an iteration hold main()'s parameters and share one
\* hybridization and one green_impurity.
C20_Shared ==
    /\ model # Unbound =>
          (model.t = t /\ model.beta = beta /\ model.U = U)
    /\ pc \in {"selfconsistency", "extract_self_energy", "green_lattice",
               "extract_hyb", "assign_hyb"} =>
          (impurity_solver.model = model /\ model.hyb = hyb)
    /\ pc \in {"extract_self_energy", "green_lattice", "extract_hyb",
               "assign_hyb"} =>
          /\ selfconsistency.model = model
          /\ selfconsistency.green_impurity = green_impurity

\* What a step leaves alone.
C20_Frame ==
    /\ n_freq' = n_freq
    /\ pc = "solve" =>
          /\ model' = model
          /\ impurity_solver' = impurity_solver
    /\ pc \in {"extract_self_energy", "green_lattice", "extract_hyb"} =>
          /\ model' = model
          /\ selfconsistency' = selfconsistency
          /\ green_impurity' = green_impurity
    /\ (InLoopBody /\ pc # "assign_hyb") => hyb' = hyb
    /\ (model # Unbound /\ pc # "model") => model' = model

\* C20: solve and run_selfconsistency leave the Model (t, beta, U, hyb) and
\* the green_impurity given to run_selfconsistency as they were; what they
\* return is written without changing the hybridization of the iteration,
\* which changes only at the assignment that ends the iteration; t, beta,
\* U and n_freq are the same over the whole run.
C20_PureAndFresh == [](C20_Shared) /\ [][C20_Frame]_vars

C20_Witness ==
    /\ pc = "assign_hyb"
    /\ ii = 1
    /\ hyb = model.hyb
    /\ hyb # zeros(n_freq)
    /\ hyb_new # <<>>
    /\ selfconsistency.green_impurity = green_impurity

\* z is a finite number other than 0: 1.0/z divides by no zero.
Invertible(z) == CFin(z) /\ z # CZero

\* C22: in main() no division is by an exact zero: for every n the
\* denominator i*w_n - hyb[n] - U/2 of solve, the green_impurity[n] inverted
\* by the extraction, the denominator i*w_n - eps(kx,ky) - Sigma[n] of the
\* lattice integrand (Sigma[n] is real and w_n > 0, so for every real eps)
\* and the G_new[n] inverted by the update are finite and not 0.
C22_NoZeroDivision ==
    /\ model # Unbound =>
          \A k \in DOMAIN model.hyb : Invertible(SolveDenominator(model, k))
    /\ \A k \in DOMAIN green_impurity : Invertible(green_impurity[k])
    /\ \A k \in DOMAIN self_energy :
          /\ CFin(self_energy[k])
          /\ self_energy[k].im = R(0)
          /\ RPos(Omega(k - 1, model.beta))
          /\ \A kx \in Nodes, ky \in Nodes :
                Invertible(LatticeIntegrand(model, self_energy, k, kx, ky))
    /\ \A k \in DOMAIN green_impurity_new : Invertible(green_impurity_new[k])
    /\ \A k \in DOMAIN hyb_new : CFin(hyb_new[k])
    /\ \A k \in DOMAIN hyb : CFin(hyb[k])

C22_Witness ==
    /\ pc = "print"
    /\ ii = iter_max - 1
    /\ \A k \in DOMAIN hyb : Invertible(hyb[k])
    /\ \A k \in DOMAIN green_impurity_new : Invertible(green_impurity_new[k])

-----------------------------------------------------------------------------
(***************************************************************************)
(* Properties of the cells before main().                                  *)
(***************************************************************************)
\* The node at the centre of the Brillouin zone, k = 0.
AtZero == CHOOSE k \in Nodes : cos(k) = 1

\* The node on the boundary of the Brillouin zone, k = pi (-pi on the grid,
\* the same point of the zone).
AtPi == CHOOSE k \in Nodes : cos(k) = -1

\* C11: for any hopping t, Model.eps_k returns -4t at (0,0), 0 at (pi,0) and
\* at (0,pi), and 4t at (pi,pi).
C11_DispersionAtSymmetryPoints ==
    (eps_call # Unbound /\ eps_call.fn = "Model.eps_k") =>
        /\ (eps_call.kx = AtZero /\ eps_call.ky = AtZero)
               => eps_call.ret = R(-4 * eps_call.t)
        /\ (eps_call.kx = AtPi /\ eps_call.ky = AtZero)
               => eps_call.ret = R(0)
        /\ (eps_call.kx = AtZero /\ eps_call.ky = AtPi)
               => eps_call.ret = R(0)
        /\ (eps_call.kx = AtPi /\ eps_call.ky = AtPi)
               => eps_call.ret = R(4 * eps_call.t)

C11_Witness ==
    eps_call = [fn |-> "Model.eps_k", t |-> 2, kx |-> AtPi, ky |-> AtPi,
                ret |-> R(8)]

\* The Brillouin-zone average of a function whose integral over the zone
\* is int.
ZoneAverage(int) == RDiv(int, TwoPiSquared)

\* The formula of the notebook's text: Delta_1 = <eps^2> - <eps>^2.
Variance(int_eps_k_, int_eps_k_squared_) ==
    RSub(ZoneAverage(int_eps_k_squared_),
         RMul(ZoneAverage(int_eps_k_), ZoneAverage(int_eps_k_)))

\* get_hyb_fm has returned, from its own integrals or from given ones.
HybFmReturned == pc \in {"printed", "returned_on_values"}

\* C12: the value get_hyb_fm returns is the variance <eps^2> - <eps>^2 of
\* the dispersion, as a function of the two integrals it has obtained.
C12_ReturnIsVariance ==
    HybFmReturned => hyb_fm = Variance(int_eps_k, int_eps_k_squared)

\* The integrals over the zone of Model.eps_k and of its square, for the
\* hopping t_.
IntModelEps(t_) ==
    dblquad([a \in Nodes, b \in Nodes |-> eps_k(Model(t_, beta, U, <<>>), a, b)])

IntModelEpsSquared(t_) ==
    dblquad([a \in Nodes, b \in Nodes |->
                RMul(eps_k(Model(t_, beta, U, <<>>), a, b),
                     eps_k(Model(t_, beta, U, <<>>), a, b))])

\* C19: the zone average of the dispersion that get_hyb_fm integrates is
\* exactly 0, and the value it returns and the cell prints is 4, the first
\* moment <eps^2> - <eps>^2 of the square lattice with t = -1.
C19_FirstMomentIsFour ==
    /\ pc \in {"int_eps_k_squared", "return", "printed"}
          => ZoneAverage(int_eps_k) = R(0)
    /\ pc = "printed"
          => /\ hyb_fm = R(4)
             /\ ZoneAverage(IntModelEps(t)) = R(0)
             /\ hyb_fm = Variance(IntModelEps(t), IntModelEpsSquared(t))

C19_Witness ==
    /\ pc = "printed"
    /\ int_eps_k = R(0)
    /\ ZoneAverage(int_eps_k_squared) = R(4)
    /\ hyb_fm = R(4)

-----------------------------------------------------------------------------
(***************************************************************************)
(* Properties of the components on arrays of different lengths.            *)
(***************************************************************************)
\* run_selfconsistency works on a hybridization whose length is not the
\* length of its green_impurity.
LengthMismatch ==
    /\ selfconsistency # Unbound
    /\ Len(selfconsistency.model.hyb) # Len(selfconsistency.green_impurity)

\* C13, as claimed: with a hybridization whose length differs from the
\* length of the impurity Green's function, no component returns a result:
\* run_selfconsistency does not get past its first loop.
C13_MismatchAlwaysFails ==
    LengthMismatch => pc \in {"extract_self_energy", "raised"}

\* C13, amended: solve never fails on a length, its result has the length
\* of model.hyb; run_selfconsistency raises IndexError in its first loop,
\* and returns nothing, exactly when model.hyb is shorter than
\* green_impurity; on a longer model.hyb it returns a result of the length
\* of green_impurity.
C13_FailsOnlyOnShorterHyb ==
    /\ AfterSolve =>
          /\ error = "none"
          /\ Len(green_impurity) = Len(impurity_solver.model.hyb)
    /\ pc = "raised" =>
          /\ error = "IndexError"
          /\ Len(selfconsistency.model.hyb) < Len(selfconsistency.green_impurity)
          /\ self_energy = <<>> /\ green_impurity_new = <<>> /\ hyb_new = <<>>
    /\ (selfconsistency # Unbound /\ pc # "extract_self_energy"
          /\ Len(selfconsistency.model.hyb) < Len(selfconsistency.green_impurity))
          => pc = "raised"
    /\ AfterUpdate =>
          /\ error = "none"
          /\ Len(selfconsistency.model.hyb) >= Len(selfconsistency.green_impurity)
          /\ Len(hyb_new) = Len(selfconsistency.green_impurity)

C13_Witness ==
    /\ AfterUpdate
    /\ error = "none"
    /\ Len(selfconsistency.model.hyb) > Len(selfconsistency.green_impurity)
    /\ Len(hyb_new) = Len(selfconsistency.green_impurity)

\* The SelfConsistency object with the hybridization of its Model cut to
\* the length of its green_impurity.
Truncated(self) ==
    SelfConsistency(Model(self.model.t, self.model.beta, self.model.U,
                          SubSeq(self.model.hyb, 1, Len(self.green_impurity))),
                    self.green_impurity)

\* The results of run_selfconsistency have the length of green_impurity and
\* are those of the hybridization cut to that length.
C26_ExtraEntriesIgnored ==
    /\ AfterExtraction =>
          self_energy = SelfEnergyOf(Truncated(selfconsistency))
    /\ AfterLattice =>
          green_impurity_new =
              GreenImpurityNewOf(Truncated(selfconsistency), self_energy)
    /\ AfterUpdate =>
          /\ hyb_new = HybNewOf(Truncated(selfconsistency), self_energy,
                                green_impurity_new)
          /\ Len(self_energy) = Len(selfconsistency.green_impurity)
          /\ Len(green_impurity_new) = Len(selfconsistency.green_impurity)
          /\ Len(hyb_new) = Len(selfconsistency.green_impurity)

C26_SizedFromOneSequence ==
    /\ pc = "solve" =>
          /\ pc' = "selfconsistency"
          /\ error' = "none"
          /\ Len(green_impurity') = Len(model.hyb)
    /\ pc = "extract_self_energy" =>
          IF Len(selfconsistency.model.hyb) < Len(selfconsistency.green_impurity)
          THEN pc' = "raised" /\ error' = "IndexError"
          ELSE pc' = "green_lattice" /\ error' = "none"

\* C26: run_selfconsistency raises IndexError in its first loop when
\* model.hyb is shorter than green_impurity and goes on when it is not; on a
\* longer model.hyb its results are those of the first len(green_impurity)
\* entries and have that length.  solve always returns, a sequence of the
\* length of model.hyb.
C26_AsymmetricLengthCheck ==
    [](C26_ExtraEntriesIgnored) /\ [][C26_SizedFromOneSequence]_vars

C26_Witness ==
    /\ pc = "raised"
    /\ error = "IndexError"
    /\ Len(selfconsistency.model.hyb) = 1
    /\ Len(selfconsistency.green_impurity) = 2
    /\ self_energy = <<>>

-----------------------------------------------------------------------------
(***************************************************************************)
(* Properties of main() on any initial guess.                              *)
(***************************************************************************)
\* solve has divided by an exact zero: an entry of the green_impurity it
\* returned is not finite.
DividedByZero == \E k \in DOMAIN green_impurity : ~CFin(green_impurity[k])

C14_NoStepRaises ==
    /\ error = "none"
    /\ pc # "raised"
    /\ pc \in {"selfconsistency", "extract_self_energy", "green_lattice",
               "extract_hyb", "assign_hyb"}
          => \A k \in DOMAIN green_impurity :
                SolveDenominator(model, k) = CZero => ~CFin(green_impurity[k])
    /\ AfterUpdate
          => \A k \in DOMAIN hyb_new :
                ~CFin(green_impurity[k]) => ~CFin(hyb_new[k])
    /\ pc = "done"
          => /\ stdout = iter_max
             /\ Len(returned[1]) = n_freq
             /\ returned = <<frequencies, hyb>>

\* An entry of hyb that is not finite stays so.
C14_NonFiniteStays ==
    \A k \in DOMAIN hyb : ~CFin(hyb[k]) => ~CFin(hyb'[k])

-----------------------------------------------------------------------------
(***************************************************************************)
(* Properties of run_selfconsistency run index by index.                   *)
(***************************************************************************)
\* What the sequential loops of run_selfconsistency return.
SequentialHybNew(self) ==
    HybNewOf(self, SelfEnergyOf(self),
             GreenImpurityNewOf(self, SelfEnergyOf(self)))

\* self with every entry but k of its hybridization and of its
\* green_impurity replaced by 1.
OnlyEntry(self, k) ==
    SelfConsistency(
        Model(self.model.t, self.model.beta, self.model.U,
              [j \in DOMAIN self.model.hyb |->
                  IF j = k THEN self.model.hyb[j] ELSE COne]),
        [j \in DOMAIN self.green_impurity |->
            IF j = k THEN self.green_impurity[j] ELSE COne])

\* Every index has run the bodies of the three loops.
AllReturned == \A k \in DOMAIN pc : pc[k] = "return"

C21_Result ==
    \A k \in DOMAIN pc :
        pc[k] = "return" =>
            /\ hyb_new[k] = SequentialHybNew(selfconsistency)[k]
            /\ hyb_new[k] = SequentialHybNew(OnlyEntry(selfconsistency, k))[k]

\* A step of index k writes entry k of one array and no other entry.
C21_WritesOwnEntry ==
    \A k \in DOMAIN pc :
        pc'[k] = pc[k] =>
            /\ self_energy'[k] = self_energy[k]
            /\ green_impurity_new'[k] = green_impurity_new[k]
            /\ hyb_new'[k] = hyb_new[k]

\* C21: whatever the order in which the indices run the bodies of the three
\* loops, entry n of hyb_new is the one the sequential loops return, it is
\* the same when the other entries of model.hyb and green_impurity are
\* changed, and a step of index n writes entry n only.
C21_IndependentFrequencies == [](C21_Result) /\ [][C21_WritesOwnEntry]_vars

\* Index 2 has gone through the three loops before index 1 has started.
C21_Witness ==
    /\ Len(hyb_new) = 2
    /\ pc[1] = "extract_self_energy"
    /\ pc[2] = "return"
    /\ selfconsistency.model.U = 2
    /\ hyb_new[2] = SequentialHybNew(selfconsistency)[2]
    /\ hyb_new[2] # CZero

-----------------------------------------------------------------------------
(***************************************************************************)
(* The function eps_k against the method Model.eps_k.                      *)
(***************************************************************************)
\* C23: the value the function eps_k returns at (kx, ky) is the value
\* Model.eps_k returns there on a Model of hopping t = -1.
C23_ModuleEpsIsModelEps ==
    (eps_call # Unbound /\ eps_call.fn = "eps_k") =>
        eps_call.ret = eps_k(Model(t, beta, U, <<>>), eps_call.kx, eps_call.ky)

-----------------------------------------------------------------------------
(***************************************************************************)
(* Properties of the draft.                                                *)
(***************************************************************************)
C24_NothingAfterSolve ==
    /\ ii \in {-1, 0}
    /\ green_impurity = <<>>
    /\ selfconsistency = Unbound
    /\ self_energy = <<>> /\ green_impurity_new = <<>> /\ hyb_new = <<>>
    /\ stdout = 0
    /\ returned = Unbound
    /\ pc # "raised" => error = "none"
    /\ pc = "raised" =>
          /\ error = "ValueError"
          /\ ii = 0
          /\ draft_solve(impurity_solver).n = 0

C24_SolveRaises ==
    /\ hyb' = hyb
    /\ pc = "solve" => pc' = "raised"

\* C24: the draft's main() raises ValueError in ImpuritySolver.solve, at
\* index 0 of iteration 0: solve returns nothing, no SelfConsistency is
\* built, hyb keeps its initial value, nothing is printed or returned.
C24_DraftNeverCompletes == [](C24_NothingAfterSolve) /\ [][C24_SolveRaises]_vars

C24_Witness ==
    /\ pc = "raised"
    /\ error = "ValueError"
    /\ ii = 0
    /\ n_freq = 2
    /\ model.U = draft_U
    /\ hyb = zeros(n_freq)
    /\ selfconsistency = Unbound

-----------------------------------------------------------------------------
(***************************************************************************)
(* Properties of main() on any initial guess.                              *)
(***************************************************************************)
\* i*w_n - 1/G[n] - U/2 at entry k = n+1, with G[n] the lattice Green's
\* function of the self-energy U/2: a function of n (through k), t, beta
\* and U only.
OneStepHyb(m, k) ==
    CSub(CSub(iwn(k - 1, m.beta), CInv(ConvergedGreen(m, k))),
         ConvergedSelfEnergy(m)[k])

\* Entry k of the hybridization of m is finite and off the pole of solve.
OffThePole(m, k) == CFin(m.hyb[k]) /\ SolveDenominator(m, k) # CZero

\* The hybridization returned by one iteration is a function of n, t, beta
\* and U, whatever hybridization was given.
C25_AnyInput ==
    AfterSolveAndUpdate =>
        \A k \in DOMAIN hyb_new :
            hyb_new[k] = OneStepHyb(selfconsistency.model, k)

C25_OffThePoleOnly ==
    AfterSolveAndUpdate =>
        \A k \in DOMAIN hyb_new :
            IF OffThePole(selfconsistency.model, k)
            THEN /\ hyb_new[k] = OneStepHyb(selfconsistency.model, k)
                 /\ CFin(hyb_new[k])
            ELSE ~CFin(hyb_new[k])

C25_LaterIterations ==
    (pc = "assign_hyb" /\ ii >= 1) =>
        \A k \in DOMAIN hyb :
            IF CFin(hyb[k]) THEN hyb'[k] = hyb[k] ELSE ~CFin(hyb'[k])

\* C25: entry n of the hybridization returned by one iteration does not
\* depend on the hybridization given, as long as the entry given is finite
\* and is not i*w_n - U/2; otherwise the entry returned is not finite.
\* From iteration 2 on, the finite entries of hyb no longer change.
C25_OneStepOffThePole ==
    [](C25_OffThePoleOnly) /\ [][C25_LaterIterations]_vars

C25_Witness ==
    /\ AfterSolveAndUpdate
    /\ ii = 0
    /\ n_freq = 2
    /\ selfconsistency.model.hyb[1] = CMk(R(-1), R(1))
    /\ selfconsistency.model.hyb[2] = CZero
    /\ hyb_new[1] = OneStepHyb(selfconsistency.model, 1)
    /\ hyb_new[2] = OneStepHyb(selfconsistency.model, 2)
    /\ hyb_new # selfconsistency.model.hyb

====
